---- MODULE Spec2Model ----
(***************************************************************************)
(* UserBehaviorTiny (src/app.py): a Flask application over one SQLite      *)
(* file with two tables, ui_elements and events.                           *)
(*                                                                         *)
(* The store is the file app.db.  A process start runs init_db only when   *)
(* the file is absent (line 55).  Requests are served by handlers that     *)
(* each use a connection kept in flask.g and closed by the teardown hook.  *)
(*                                                                         *)
(* Python None / SQL NULL is the empty tuple None, a present value x is    *)
(* the one-element tuple Some(x).  Request strings that are trimmed are    *)
(* sequences of characters; keys and enumerated values are strings.        *)
(***************************************************************************)
EXTENDS Integers, Sequences, FiniteSets, TLC

VARIABLES
    dbFile,          \* Path(DB_PATH).exists()
    ui_elements,     \* committed rows of table ui_elements, in rowid order
    events,          \* committed rows of table events, in rowid order
    sqlite_sequence, \* AUTOINCREMENT bookkeeping: table -> largest rowid used
    writer,          \* request whose connection holds the write lock, 0 if none
    pending,         \* rows inserted by the writer and not yet committed
    running,         \* the module was imported and the server serves requests
    initRan,         \* init_db has been called on this store
    initError,       \* exception raised by the last init_db call, "" if none
    pc,              \* per request: position in its handler
    data,            \* per request: the parsed body (lines 67-70)
    conn,            \* flask.g and the connections: g[r] is "db" in g, open the
                     \* requests whose connection is open, connects[r] the
                     \* sqlite3.connect calls of the request, rowid[r] the
                     \* connection's last_insert_rowid()
    row,             \* per request: result of the key lookup (line 80)
    evt_id,          \* per request: value read at line 91
    resp,            \* per request: the response, None while in flight
    before           \* the committed tables when the latest request was received

vars == << dbFile, ui_elements, events, sqlite_sequence, writer, pending,
           running, initRan, initError, pc, data, conn, row, evt_id, resp,
           before >>

storeVars == << dbFile, ui_elements, events, sqlite_sequence, writer, pending >>
procVars == << running, initRan, initError >>
reqVars == << pc, data, conn, row, evt_id, resp, before >>

----------------------------------------------------------------------------
(* Bounds of the model. *)

NReq == 2        \* request slots that may be in flight together
MaxEvents == 2   \* requests are received while fewer events than this exist
MaxTime == 2     \* int(time.time()) ranges over 1..MaxTime

Reqs == 1..NReq
Times == 1..MaxTime

----------------------------------------------------------------------------
(* Optional values and strings. *)

None == << >>
Some(x) == << x >>

\* Python truthiness of an optional string whose empty value is `empty`.
Falsy(x, empty) == x = None \/ x[1] = empty

Whitespace == {" "}

RECURSIVE LStrip(_)
LStrip(s) == IF s # << >> /\ Head(s) \in Whitespace THEN LStrip(Tail(s)) ELSE s

RECURSIVE RStrip(_)
RStrip(s) ==
    IF s # << >> /\ s[Len(s)] \in Whitespace
    THEN RStrip(SubSeq(s, 1, Len(s) - 1))
    ELSE s

\* str.strip()
Strip(s) == RStrip(LStrip(s))

----------------------------------------------------------------------------
(* The store: schema, seed data and init_db (lines 21-56). *)

\* the literal seed list of lines 45-50
SeedValues ==
    << [key |-> "btn_red",  type |-> "button",     label |-> "Red Button"],
       [key |-> "btn_blue", type |-> "button",     label |-> "Blue Button"],
       [key |-> "txt_note", type |-> "text_input", label |-> "Note"],
       [key |-> "txt_idea", type |-> "text_input", label |-> "Idea"] >>

\* executemany of the INSERT at lines 43-51: one AUTOINCREMENT id per row
RECURSIVE InsertElements(_, _, _)
InsertElements(tbl, seq, values) ==
    IF values = << >>
    THEN [tbl |-> tbl, seq |-> seq]
    ELSE InsertElements(
             Append(tbl, [id |-> seq + 1, key |-> Head(values).key,
                          type |-> Head(values).type, label |-> Head(values).label]),
             seq + 1, Tail(values))

\* a store holding exactly the seed catalogue and no events
SeededElements == InsertElements(<< >>, 0, SeedValues).tbl

\* init_db connects without setting row_factory: fetchone() yields a tuple
InitRowFactory == "tuple"

\* get_db sets row_factory = sqlite3.Row
RequestRowFactory == "Row"

\* row["name"]: sqlite3.Row can be subscripted by column name, a tuple raises
\* TypeError
SubscriptByName(factory) == factory = "Row"

\* init_db on the store as it is: the CREATE TABLE IF NOT EXISTS statements are
\* committed as they run; then SELECT COUNT(*), the subscript ["c"], the seed
\* insert when the count is 0, commit and close.
init_db ==
    LET c == Len(ui_elements)
        seeded == InsertElements(ui_elements, sqlite_sequence.ui_elements, SeedValues)
    IN  IF ~SubscriptByName(InitRowFactory)
        THEN [error |-> "TypeError", tbl |-> ui_elements,
              seq |-> sqlite_sequence.ui_elements]
        ELSE IF c = 0
             THEN [error |-> "", tbl |-> seeded.tbl, seq |-> seeded.seq]
             ELSE [error |-> "", tbl |-> ui_elements,
                   seq |-> sqlite_sequence.ui_elements]

\* A process start: importing the module runs init_db when app.db is absent
\* (lines 55-56); an exception there aborts the import, the process dies.
StartProcess ==
    /\ ~running
    /\ IF ~dbFile
       THEN LET r == init_db
            IN  /\ dbFile' = TRUE
                /\ ui_elements' = r.tbl
                /\ sqlite_sequence' = [sqlite_sequence EXCEPT !.ui_elements = r.seq]
                /\ initRan' = TRUE
                /\ initError' = r.error
                /\ running' = (r.error = "")
       ELSE /\ running' = TRUE
            /\ UNCHANGED << dbFile, ui_elements, sqlite_sequence, initRan, initError >>
    /\ UNCHANGED << events, writer, pending >>
    /\ UNCHANGED reqVars

\* The process exits between requests.
StopProcess ==
    /\ running
    /\ \A r \in Reqs : pc[r] = "idle"
    /\ running' = FALSE
    /\ UNCHANGED << initRan, initError >>
    /\ UNCHANGED storeVars
    /\ UNCHANGED reqVars

EventTypes == {"click", "text_submit"}

ElementIds == { ui_elements[i].id : i \in 1..Len(ui_elements) }

\* PRAGMA foreign_keys of a connection made by get_db: SQLite's default, since
\* lines 10-14 never turn it on
ForeignKeysPragma == FALSE

\* The INSERT of lines 85-88 with the values `vals`, on a get_db connection:
\* the CHECK on event_type, the FOREIGN KEY when the pragma enforces it, and
\* the AUTOINCREMENT id.  (event_type, ui_element_id and created_at are never
\* NULL at line 87.)
InsertEvent(vals) ==
    IF vals.event_type \notin EventTypes
    THEN [error |-> "IntegrityError", rows |-> << >>]
    ELSE IF ForeignKeysPragma /\ vals.ui_element_id \notin ElementIds
         THEN [error |-> "IntegrityError", rows |-> << >>]
         ELSE [error |-> "",
               rows |-> << [id |-> sqlite_sequence.events + 1,
                            event_type |-> vals.event_type,
                            ui_element_id |-> vals.ui_element_id,
                            payload |-> vals.payload,
                            created_at |-> vals.created_at] >>]

----------------------------------------------------------------------------
(* Requests. *)

\* the strings a request draws its payload from
PayloadTexts == { << >>, << " " >>, << " ", "h", " " >> }

Payloads == {None} \cup { Some(t) : t \in PayloadTexts }

Keys == { None, Some(""), Some("btn_red"), Some("txt_idea"), Some("no_such") }

Types == { None, Some("hover"), Some("click"), Some("text_submit") }

\* JSON objects with each of the three fields absent or a string
Objects == [event_type : Types, element_key : Keys, payload : Payloads]

\* a body that is no JSON (get_json(silent=True) gives None) or an object
Bodies == {None} \cup { Some(o) : o \in Objects }

EmptyObject == [event_type |-> None, element_key |-> None, payload |-> None]

\* lines 67-70: request.get_json(silent=True) or {}, then data.get of each field
GetJson(body) == IF body = None THEN EmptyObject ELSE body[1]

\* Validate with the element_key check moved in front of the event_type check
Validate_KeyFirst(d) ==
    IF Falsy(d.element_key, "")
    THEN "element_key required"
    ELSE IF d.event_type \notin { Some("click"), Some("text_submit") }
         THEN "invalid event_type"
         ELSE IF /\ d.event_type = Some("text_submit")
                 /\ ~(~Falsy(d.payload, << >>) /\ Strip(d.payload[1]) # << >>)
              THEN "payload required for text_submit"
              ELSE ""

\* lines 72-77: "" when the body passes, else the message of the first check
\* that fails
Validate(d) ==
    IF d.event_type \notin { Some("click"), Some("text_submit") }
    THEN "invalid event_type"
    ELSE IF Falsy(d.element_key, "")
         THEN "element_key required"
         ELSE IF /\ d.event_type = Some("text_submit")
                 /\ ~(~Falsy(d.payload, << >>) /\ Strip(d.payload[1]) # << >>)
              THEN "payload required for text_submit"
              ELSE ""

Response(status, error, body) == [status |-> status, error |-> error, body |-> body]

\* get_db (lines 10-14): connect once per request context
get_db(c, r) ==
    IF c.g[r]
    THEN c
    ELSE [g |-> [c.g EXCEPT ![r] = TRUE],
          open |-> c.open \cup {r},
          connects |-> [c.connects EXCEPT ![r] = @ + 1],
          rowid |-> [c.rowid EXCEPT ![r] = 0]]

\* close_db that pops "db" from g and forgets to close it
close_db_PopOnly(c, r) ==
    [g |-> [c.g EXCEPT ![r] = FALSE],
     open |-> c.open,
     connects |-> c.connects,
     rowid |-> c.rowid]

\* close_db (lines 16-19), the teardown hook: pop "db" from g and close it
close_db(c, r) ==
    [g |-> [c.g EXCEPT ![r] = FALSE],
     open |-> IF c.g[r] THEN c.open \ {r} ELSE c.open,
     connects |-> c.connects,
     rowid |-> c.rowid]

\* closing a connection inside a transaction rolls the transaction back
Rollback(r) ==
    IF writer = r
    THEN writer' = 0 /\ pending' = << >>
    ELSE UNCHANGED << writer, pending >>

\* the handler returns (or raises) and the application context is torn down
Respond(r, response, c) ==
    /\ pc' = [pc EXCEPT ![r] = "done"]
    /\ resp' = [resp EXCEPT ![r] = Some(response)]
    /\ conn' = close_db(c, r)
    /\ Rollback(r)

\* requests that may still add a row
InFlight == Cardinality({ q \in Reqs : pc[q] \in {"lookup", "insert", "commit"} })

\* POST /events, lines 67-77: parse and validate
Receive(r, body) ==
    /\ running
    /\ pc[r] = "idle"
    /\ Len(events) + InFlight < MaxEvents
    /\ LET d == GetJson(body)
           err == Validate(d)
       IN  /\ data' = [data EXCEPT ![r] = d]
           /\ before' = [events |-> events, ui_elements |-> ui_elements]
           /\ IF err # ""
              THEN Respond(r, Response(400, err, None), conn)
              ELSE /\ pc' = [pc EXCEPT ![r] = "lookup"]
                   /\ UNCHANGED << resp, conn, writer, pending >>
    /\ UNCHANGED << dbFile, ui_elements, events, sqlite_sequence, row, evt_id >>
    /\ UNCHANGED procVars

\* FindElementByKey that answers the row's zero-based position, not its id
FindElementByKey_Position(key) ==
    LET hits == { i \in 1..Len(ui_elements) : ui_elements[i].key = key }
    IN  IF hits = {} THEN None ELSE Some((CHOOSE i \in hits : TRUE) - 1)

\* SELECT id FROM ui_elements WHERE key = ? ... fetchone() (line 80)
FindElementByKey(key) ==
    LET hits == SelectSeq(ui_elements, LAMBDA u : u.key = key)
    IN  IF hits = << >> THEN None ELSE Some(hits[1].id)

\* Lookup that logs the event before it rejects an unknown key
Lookup_LogFirst(r) ==
    /\ pc[r] = "lookup"
    /\ LET c == get_db(conn, r)
           found == FindElementByKey(data[r].element_key[1])
       IN  IF found = None
           THEN /\ Respond(r, Response(400, "unknown element_key", None), c)
                /\ events' = Append(events,
                                    [id |-> sqlite_sequence.events + 1,
                                     event_type |-> data[r].event_type[1],
                                     ui_element_id |-> 0,
                                     payload |-> data[r].payload,
                                     created_at |-> 1])
                /\ sqlite_sequence' =
                       [sqlite_sequence EXCEPT !.events = @ + 1]
                /\ UNCHANGED row
           ELSE /\ row' = [row EXCEPT ![r] = found]
                /\ pc' = [pc EXCEPT ![r] = "insert"]
                /\ conn' = c
                /\ UNCHANGED << resp, writer, pending, events, sqlite_sequence >>
    /\ UNCHANGED << dbFile, ui_elements, data, evt_id, before >>
    /\ UNCHANGED procVars

\* lines 79-82: get_db, look the key up, reject an unknown key
Lookup(r) ==
    /\ pc[r] = "lookup"
    /\ LET c == get_db(conn, r)
           found == FindElementByKey(data[r].element_key[1])
       IN  IF found = None
           THEN /\ Respond(r, Response(400, "unknown element_key", None), c)
                /\ UNCHANGED row
           ELSE /\ row' = [row EXCEPT ![r] = found]
                /\ pc' = [pc EXCEPT ![r] = "insert"]
                /\ conn' = c
                /\ UNCHANGED << resp, writer, pending >>
    /\ UNCHANGED << dbFile, ui_elements, events, sqlite_sequence, data, evt_id, before >>
    /\ UNCHANGED procVars

\* EventValues that stores the trimmed payload
EventValues_Trimmed(d, rowv, now) ==
    [event_type |-> d.event_type[1], ui_element_id |-> rowv[1],
     payload |-> IF d.payload = None THEN None ELSE Some(Strip(d.payload[1])),
     created_at |-> now]

\* the parameters bound at line 87: (event_type, row["id"], payload, now)
EventValues(d, rowv, now) ==
    [event_type |-> d.event_type[1], ui_element_id |-> rowv[1],
     payload |-> d.payload, created_at |-> now]

\* lines 84-88: read the clock and INSERT; the statement opens a transaction
\* and takes the write lock
Insert(r) ==
    /\ pc[r] = "insert"
    /\ writer = 0
    /\ \E now \in Times :
          LET res == InsertEvent(EventValues(data[r], row[r], now))
          IN  IF ~SubscriptByName(RequestRowFactory)
              THEN Respond(r, Response(500, "TypeError", None), conn)
              ELSE IF res.error # ""
                   THEN Respond(r, Response(500, res.error, None), conn)
                   ELSE /\ writer' = r
                        /\ pending' = res.rows
                        /\ conn' = [conn EXCEPT !.rowid[r] = res.rows[1].id]
                        /\ pc' = [pc EXCEPT ![r] = "commit"]
                        /\ UNCHANGED resp
    /\ UNCHANGED << dbFile, ui_elements, events, sqlite_sequence, data, row, evt_id, before >>
    /\ UNCHANGED procVars

\* line 85 while another connection holds the write lock past the busy
\* timeout: sqlite3.OperationalError, database is locked
InsertBusy(r) ==
    /\ pc[r] = "insert"
    /\ writer \notin {0, r}
    /\ Respond(r, Response(500, "OperationalError", None), conn)
    /\ UNCHANGED << dbFile, ui_elements, events, sqlite_sequence, data, row, evt_id, before >>
    /\ UNCHANGED procVars

\* Commit left out: the handler goes on without committing
Commit_Missing(r) ==
    /\ pc[r] = "commit"
    /\ writer = r
    /\ pc' = [pc EXCEPT ![r] = "rowid"]
    /\ UNCHANGED << data, conn, row, evt_id, resp, before >>
    /\ UNCHANGED storeVars
    /\ UNCHANGED procVars

\* line 89: db.commit()
Commit(r) ==
    /\ pc[r] = "commit"
    /\ writer = r
    /\ events' = events \o pending
    /\ sqlite_sequence' = [sqlite_sequence EXCEPT !.events = pending[Len(pending)].id]
    /\ pending' = << >>
    /\ writer' = 0
    /\ pc' = [pc EXCEPT ![r] = "rowid"]
    /\ UNCHANGED << dbFile, ui_elements, data, conn, row, evt_id, resp, before >>
    /\ UNCHANGED procVars

\* the rows of events a connection sees: committed ones and its own
Visible(r) == events \o (IF writer = r THEN pending ELSE << >>)

\* the largest id of the table (SELECT MAX(id) FROM events) in its place
last_insert_rowid_MaxId(r) ==
    IF Visible(r) = << >> THEN 0 ELSE Visible(r)[Len(Visible(r))].id

\* SELECT last_insert_rowid(): the rowid of the last insert on this connection
last_insert_rowid(r) == conn.rowid[r]

\* line 91
LastInsertRowid(r) ==
    /\ pc[r] = "rowid"
    /\ evt_id' = [evt_id EXCEPT ![r] = last_insert_rowid(r)]
    /\ pc' = [pc EXCEPT ![r] = "readback"]
    /\ UNCHANGED << data, conn, row, resp, before >>
    /\ UNCHANGED storeVars
    /\ UNCHANGED procVars

RECURSIVE JoinRows(_)
\* events e JOIN ui_elements u ON e.ui_element_id = u.id, columns of lines 93-94
JoinRows(es) ==
    IF es = << >>
    THEN << >>
    ELSE LET e == Head(es)
             us == SelectSeq(ui_elements, LAMBDA u : u.id = e.ui_element_id)
         IN  (IF us = << >>
              THEN << >>
              ELSE << [id |-> e.id, event_type |-> e.event_type,
                       payload |-> e.payload, created_at |-> e.created_at,
                       element_key |-> us[1].key, element_label |-> us[1].label,
                       element_type |-> us[1].type] >>)
             \o JoinRows(Tail(es))

\* the SELECT of lines 92-98 and its fetchone()
SelectCreated(r, id) ==
    LET rows == JoinRows(SelectSeq(Visible(r), LAMBDA e : e.id = id))
    IN  IF rows = << >> THEN None ELSE Some(rows[1])

\* lines 92-99: read the created event back and answer 201; dict(None) raises
\* TypeError
ReadBack(r) ==
    /\ pc[r] = "readback"
    /\ LET created == SelectCreated(r, evt_id[r])
       IN  IF created = None
           THEN Respond(r, Response(500, "TypeError", None), conn)
           ELSE Respond(r, Response(201, "", created), conn)
    /\ UNCHANGED << dbFile, ui_elements, events, sqlite_sequence, data, row, evt_id, before >>
    /\ UNCHANGED procVars

\* SELECT id, key, type, label FROM ui_elements ORDER BY id (line 62); the
\* table is kept in rowid order, which is id order
SelectElements == ui_elements

\* GET /elements, lines 59-63
ListElements(r) ==
    /\ running
    /\ pc[r] = "idle"
    /\ before' = [events |-> events, ui_elements |-> ui_elements]
    /\ Respond(r, Response(200, "", Some(SelectElements)), get_db(conn, r))
    /\ UNCHANGED << dbFile, ui_elements, events, sqlite_sequence, data, row, evt_id >>
    /\ UNCHANGED procVars

NoTables == [events |-> << >>, ui_elements |-> << >>]

\* the worker is free for the next request
Finish(r) ==
    /\ pc[r] = "done"
    /\ pc' = [pc EXCEPT ![r] = "idle"]
    /\ data' = [data EXCEPT ![r] = EmptyObject]
    /\ row' = [row EXCEPT ![r] = None]
    /\ evt_id' = [evt_id EXCEPT ![r] = 0]
    /\ resp' = [resp EXCEPT ![r] = None]
    /\ conn' = [conn EXCEPT !.connects[r] = 0, !.rowid[r] = 0]
    /\ UNCHANGED before
    /\ UNCHANGED storeVars
    /\ UNCHANGED procVars

----------------------------------------------------------------------------
(* Specifications. *)

\* Before the first start app.db is absent, or it is a store put in place
\* beforehand that holds the seed catalogue and no events: line 55 runs
\* init_db only when the file is absent and uses an existing file as it is.
Init ==
    /\ dbFile \in BOOLEAN
    /\ ui_elements = IF dbFile THEN SeededElements ELSE << >>
    /\ events = << >>
    /\ sqlite_sequence = [ui_elements |-> Len(ui_elements), events |-> 0]
    /\ writer = 0
    /\ pending = << >>
    /\ running = FALSE
    /\ initRan = FALSE
    /\ initError = ""
    /\ pc = [r \in Reqs |-> "idle"]
    /\ data = [r \in Reqs |-> EmptyObject]
    /\ conn = [g |-> [r \in Reqs |-> FALSE], open |-> {},
               connects |-> [r \in Reqs |-> 0], rowid |-> [r \in Reqs |-> 0]]
    /\ row = [r \in Reqs |-> None]
    /\ evt_id = [r \in Reqs |-> 0]
    /\ resp = [r \in Reqs |-> None]
    /\ before = NoTables

Handle(r) ==
    \/ Lookup(r)
    \/ Insert(r)
    \/ InsertBusy(r)
    \/ Commit(r)
    \/ LastInsertRowid(r)
    \/ ReadBack(r)
    \/ ListElements(r)
    \/ Finish(r)

\* the bodies drawn while requests run concurrently: one that is no JSON, a
\* click, a text submission, a blank text submission and an unknown key
ConcurrentBodies ==
    { None,
      Some([event_type |-> Some("click"), element_key |-> Some("btn_red"),
            payload |-> None]),
      Some([event_type |-> Some("text_submit"), element_key |-> Some("txt_idea"),
            payload |-> Some(<< " ", "h", " " >>)]),
      Some([event_type |-> Some("text_submit"), element_key |-> Some("txt_idea"),
            payload |-> Some(<< " " >>)]),
      Some([event_type |-> Some("click"), element_key |-> Some("no_such"),
            payload |-> None]) }

\* A threaded server: up to NReq requests in flight, their steps interleaved.
Next ==
    \/ StartProcess
    \/ StopProcess
    \/ \E r \in Reqs, body \in ConcurrentBodies : Receive(r, body)
    \/ \E r \in Reqs : Handle(r)

Spec == Init /\ [][Next]_vars

\* One request at a time, over every body.
NextSeq ==
    \/ StartProcess
    \/ StopProcess
    \/ \E body \in Bodies : Receive(1, body)
    \/ Lookup(1)
    \/ Insert(1)
    \/ Commit(1)
    \/ LastInsertRowid(1)
    \/ ReadBack(1)
    \/ ListElements(1)
    \/ Finish(1)

SpecSeq == Init /\ [][NextSeq]_vars

\* Direct use of the store: the INSERT of lines 85-88 and the commit of line
\* 89 with arbitrary values, on a connection as get_db makes it.
StoreCreateEvent(event_type, ui_element_id, payload, created_at) ==
    /\ dbFile
    /\ writer = 0
    /\ Len(events) < MaxEvents
    /\ LET res == InsertEvent([event_type |-> event_type,
                               ui_element_id |-> ui_element_id,
                               payload |-> payload, created_at |-> created_at])
       IN  IF res.error # ""
           THEN UNCHANGED << events, sqlite_sequence >>
           ELSE /\ events' = events \o res.rows
                /\ sqlite_sequence' =
                       [sqlite_sequence EXCEPT !.events = res.rows[1].id]
    /\ UNCHANGED << dbFile, ui_elements, writer, pending >>
    /\ UNCHANGED procVars
    /\ UNCHANGED reqVars

\* element ids a direct caller may pass: the seeded ones, 0 and one past them
DirectIds == 0..(Len(SeedValues) + 1)

NextStore ==
    \E event_type \in {"click", "text_submit", "hover"}, ui_element_id \in DirectIds,
       payload \in Payloads, created_at \in Times :
        StoreCreateEvent(event_type, ui_element_id, payload, created_at)

SpecStore == Init /\ [][NextStore]_vars

----------------------------------------------------------------------------
(* Properties. *)

\* a POST /events request has been answered
Answered(r) == pc[r] = "done" /\ resp[r] # None /\ resp[r][1].status # 200

\* no character of s is outside the whitespace
Blank(s) == \A i \in 1..Len(s) : s[i] \in Whitespace

KnownKey(k) == \E i \in 1..Len(ui_elements) : ui_elements[i].key = k

ValidTypes == { Some("click"), Some("text_submit") }

\* the message the four validations give in their stated order, "" if none
FirstFailure(d) ==
    IF d.event_type \notin ValidTypes
    THEN "invalid event_type"
    ELSE IF d.element_key = None \/ d.element_key = Some("")
         THEN "element_key required"
         ELSE IF /\ d.event_type = Some("text_submit")
                 /\ (d.payload = None \/ Blank(d.payload[1]))
              THEN "payload required for text_submit"
              ELSE IF ~KnownKey(d.element_key[1])
                   THEN "unknown element_key"
                   ELSE ""

\* C1: every answered POST /events whose body fails a validation is answered
\* 400 with the message of the first validation that fails, in the order
\* event_type, element_key, payload, known key.
C1_ValidationOrder ==
    \A r \in Reqs :
        (Answered(r) /\ FirstFailure(data[r]) # "")
            => resp[r] = Some(Response(400, FirstFailure(data[r]), None))

\* a blank text submission against an unknown key is answered with the
\* payload message
C1_Witness ==
    /\ Answered(1)
    /\ data[1].event_type = Some("text_submit")
    /\ data[1].element_key = Some("no_such")
    /\ data[1].payload = Some(<< " " >>)
    /\ resp[1][1].error = "payload required for text_submit"

\* C2: when a POST /events request has been answered 400, both tables hold
\* exactly the rows they held when the request was received, and nothing is
\* left uncommitted.
C2_RejectLeavesStore ==
    (Answered(1) /\ resp[1][1].status = 400)
        => /\ events = before.events
           /\ ui_elements = before.ui_elements
           /\ pending = << >>

\* an unknown key is rejected on a store that already holds an event
C2_Witness ==
    /\ Answered(1)
    /\ resp[1][1].error = "unknown element_key"
    /\ ui_elements # << >>
    /\ Len(events) >= 1

\* the body passes all four validations
PassesAll(d) ==
    /\ d.event_type \in ValidTypes
    /\ d.element_key # None
    /\ KnownKey(d.element_key[1])
    /\ d.event_type = Some("text_submit")
           => (d.payload # None /\ ~Blank(d.payload[1]))

\* C3: a POST /events request that passes all validations is answered 201,
\* and events is then the table as it was when the request was received plus
\* one row with an id no earlier row has; ui_elements is unchanged.
C3_AcceptAppendsOne ==
    (Answered(1) /\ PassesAll(data[1]))
        => /\ resp[1][1].status = 201
           /\ Len(events) = Len(before.events) + 1
           /\ SubSeq(events, 1, Len(before.events)) = before.events
           /\ \A i \in 1..Len(before.events) :
                  before.events[i].id # events[Len(events)].id
           /\ ui_elements = before.ui_elements
           /\ pending = << >>

\* a click without payload is accepted on a store that already holds an event
C3_Witness ==
    /\ Answered(1)
    /\ resp[1][1].status = 201
    /\ data[1].event_type = Some("click")
    /\ data[1].payload = None
    /\ Len(before.events) >= 1

\* C4: the id of a 201 response names exactly one stored row; that row holds
\* the submitted event_type, the submitted payload as sent, and the id of the
\* element with the submitted key; the response repeats the row's event_type,
\* payload and created_at and the element's key, label and type.
C4_RoundTrip ==
    (Answered(1) /\ resp[1][1].status = 201)
        => LET b == resp[1][1].body[1]
               es == SelectSeq(events, LAMBDA e : e.id = b.id)
               us == SelectSeq(ui_elements,
                               LAMBDA u : Some(u.key) = data[1].element_key)
           IN  /\ Len(es) = 1
               /\ Len(us) = 1
               /\ Some(es[1].event_type) = data[1].event_type
               /\ es[1].payload = data[1].payload
               /\ es[1].ui_element_id = us[1].id
               /\ b.element_key = us[1].key
               /\ b.element_label = us[1].label
               /\ b.element_type = us[1].type
               /\ b.event_type = es[1].event_type
               /\ b.payload = es[1].payload
               /\ b.created_at = es[1].created_at

\* a text submission with surrounding blanks has been stored and answered
C4_Witness ==
    /\ Answered(1)
    /\ resp[1][1].status = 201
    /\ data[1].event_type = Some("text_submit")
    /\ data[1].payload = Some(<< " ", "h", " " >>)
    /\ data[1].element_key = Some("txt_idea")
    /\ Len(events) = 2

\* C5: once init_db has been called on an absent store it has completed
\* without an exception, ui_elements holds exactly the four seed rows with ids
\* 1..4 in seed order, and GET /elements answers them.
C5_FreshInitSeeds ==
    initRan
        => /\ initError = ""
           /\ ui_elements = SeededElements
           /\ \A r \in Reqs :
                  (pc[r] = "done" /\ resp[r][1].status = 200)
                      => resp[r][1].body = Some(SeededElements)

\* C6: once init_db has been called, ui_elements holds four rows, one for each
\* seed key and none twice.
C6_InitIdempotent ==
    initRan
        => /\ Len(ui_elements) = Len(SeedValues)
           /\ { ui_elements[i].key : i \in 1..Len(ui_elements) }
                  = { SeedValues[i].key : i \in 1..Len(SeedValues) }

\* C7: no store insert adds an events row whose ui_element_id is the id of no
\* ui_elements row.
C7_InsertChecksElement ==
    [][\A i \in (Len(events) + 1)..Len(events') :
           events'[i].ui_element_id \in ElementIds]_vars

\* C8: under interleaving, a request answered 201 is answered with the row
\* its own connection inserted (that row's id, and the request's event_type,
\* payload and key); a request whose connection inserted a row is answered 201
\* with a body, never with a failed read-back; no two responses carry the same
\* id.
C8_ReadBackOwnRow ==
    /\ \A r \in Reqs :
           (Answered(r) /\ resp[r][1].status = 201)
               => LET b == resp[r][1].body[1]
                  IN  /\ b.id = conn.rowid[r]
                      /\ Some(b.event_type) = data[r].event_type
                      /\ b.payload = data[r].payload
                      /\ Some(b.element_key) = data[r].element_key
    /\ \A r \in Reqs :
           (Answered(r) /\ conn.rowid[r] # 0)
               => (resp[r][1].status = 201 /\ resp[r][1].body # None)
    /\ \A r, q \in Reqs :
           (/\ r # q
            /\ Answered(r) /\ resp[r][1].status = 201
            /\ Answered(q) /\ resp[q][1].status = 201)
               => resp[r][1].body[1].id # resp[q][1].body[1].id

\* request 1 is answered with its row 1 while request 2 has committed row 2
\* and has not read its id yet
C8_Witness ==
    /\ Answered(1)
    /\ resp[1][1].status = 201
    /\ resp[1][1].body[1].id = 1
    /\ pc[2] = "rowid"
    /\ conn.rowid[2] = 2
    /\ Len(events) = 2

\* C9: a request makes at most one connection, and a request that is not in
\* flight has no open connection and no "db" in g.
C9_ConnectionScoped ==
    \A r \in Reqs :
        /\ conn.connects[r] <= 1
        /\ pc[r] \in {"idle", "done"} => (r \notin conn.open /\ ~conn.g[r])

\* a request that failed on the locked store and the request that held the
\* lock are both answered, and no connection is open
C9_Witness ==
    /\ pc[1] = "done"
    /\ resp[1][1].status = 500
    /\ conn.connects[1] = 1
    /\ pc[2] = "done"
    /\ resp[2][1].status = 201
    /\ conn.open = {}

\* C10: every events row, committed or not, references an existing
\* ui_elements row and has event_type click or text_submit.
C10_ReferentialIntegrity ==
    \A i \in 1..Len(events \o pending) :
        /\ (events \o pending)[i].ui_element_id \in ElementIds
        /\ (events \o pending)[i].event_type \in EventTypes

\* two events against different elements are stored
C10_Witness ==
    /\ Len(events) = 2
    /\ events[1].ui_element_id # events[2].ui_element_id
    /\ events[1].event_type # events[2].event_type

====
